---- MODULE Spec2Model ----
(***************************************************************************)
(* Risk gating and trade lifecycle of the trading bot: RiskManager         *)
(* (trading/risk.py), the trades table (db/database.py), the order gateway *)
(* (trading/executor.py), the market data collector (data/collector.py)   *)
(* and the scheduled tasks run_analysis / run_monitor (main.py).           *)
(*                                                                         *)
(* Numbers are exact rationals <<numerator, denominator>> in lowest terms  *)
(* with a positive denominator; SQL NULL / Python None is the empty tuple; *)
(* a key that is missing from a dict is the one-element tuple <<0>>.       *)
(* Timestamps are whole hours since the UTC epoch of the model.            *)
(***************************************************************************)
EXTENDS Integers, Sequences, FiniteSets, TLC

\* ------------------------------------------------------------------ bounds
MaxTrades == 1
MaxTicks == 1
MaxAdmitted == 4

\* --------------------------------------------------------------- constants
HoursPerDay == 24
StartHour == HoursPerDay - 2
max_open_positions == 3
cooldown_hours == 2
min_confidence == 70
min_reward_risk_ratio == <<2, 1>>
max_risk_per_trade == <<1, 50>>
max_daily_drawdown == <<1, 20>>
mock_balance == 10000

Symbols == {"X", "Y"}
Modes == {"live", "dry", "demo"}
TzOffsets == {0}

\* ------------------------------------------------------ rational arithmetic
NULL == <<>>
ABSENT == <<0>>

Abs(x) == IF x < 0 THEN -x ELSE x

RECURSIVE GCD(_, _)
GCD(a, b) == IF b = 0 THEN a ELSE GCD(b, a % b)

Rat(n, d) ==
    LET s == IF d < 0 THEN -1 ELSE 1
        g == GCD(Abs(n), Abs(d))
    IN  <<(s * n) \div g, (s * d) \div g>>

R(n) == <<n, 1>>
IsNum(a) == Len(a) = 2
RAdd(a, b) == Rat(a[1] * b[2] + b[1] * a[2], a[2] * b[2])
RSub(a, b) == Rat(a[1] * b[2] - b[1] * a[2], a[2] * b[2])
RMul(a, b) == Rat(a[1] * b[1], a[2] * b[2])
RDiv(a, b) == Rat(a[1] * b[2], a[2] * b[1])
RNeg(a) == <<-a[1], a[2]>>
RAbs(a) == <<Abs(a[1]), a[2]>>
RLt(a, b) == a[1] * b[2] < b[1] * a[2]
RLe(a, b) == a[1] * b[2] <= b[1] * a[2]
RMin(a, b) == IF RLt(b, a) THEN b ELSE a
RZero(a) == a[1] = 0

\* Python truthiness of an optional number: None, a missing key and 0 are false.
Truthy(a) == IsNum(a) /\ ~RZero(a)
\* dict.get(key): a missing key reads as None.
Get(a) == IF a = ABSENT THEN NULL ELSE a
\* dict.get(key, default): only a missing key reads as the default.
GetDefault(a, dflt) == IF a = ABSENT THEN dflt ELSE a
\* Python "a or b".
Or(a, b) == IF Truthy(a) THEN a ELSE b


\* ------------------------------------------------------------------- state
VARIABLES
    trades,     \* the trades table: a sequence of rows, row i has id i
    venue,      \* venue[s]: the exchange holds a position of non-zero size in s
    now,        \* UTC clock, in hours
    tz,         \* offset of the host's local time from UTC, in hours
    mode,       \* "live", "dry" (--dry-run) or "demo" (--demo)
    last,       \* what the most recent step did (calls made, alerts sent, outcome)
    vin,        \* arguments of a RiskManager call
    vout,       \* what validate_signal returned for them
    vsize,      \* what calculate_position_size did with them
    vcall       \* a call of another function on arguments of its own, and its result

vars == <<trades, venue, now, tz, mode, last, vin, vout, vsize, vcall>>

\* ------------------------------------------------------------ trades table
\* Columns of CREATE TABLE trades (signal_id and exchange_order_id are
\* informational and never read back; the model leaves them out of the rows).
TradeColumns ==
    {"id", "signal_id", "symbol", "side", "quantity", "entry_price", "exit_price",
     "stop_loss", "take_profit", "status", "pnl", "pnl_percent", "exchange_order_id",
     "opened_at", "closed_at"}

\* closed_at of a row that was never closed (NULL).
NoTime == 0 - 1
AllSymbols == "*"

\* DATE(ts): the UTC calendar day of a timestamp.
DateOf(t) == t \div HoursPerDay

\* NOT NULL columns of an insert.
save_trade_ok(t) == t.quantity # NULL /\ t.entry_price # NULL

\* Faulty variant: the insert reuses the id of the newest row (INSERT OR REPLACE).
save_trade_replace(tbl, t, clock) ==
    LET row == [id |-> IF tbl = <<>> THEN 1 ELSE Len(tbl), symbol |-> t.symbol,
                side |-> t.side, quantity |-> t.quantity,
                entry_price |-> t.entry_price, exit_price |-> NULL,
                stop_loss |-> t.stop_loss, take_profit |-> t.take_profit,
                status |-> t.status, pnl |-> NULL, pnl_percent |-> NULL,
                opened_at |-> clock, closed_at |-> NoTime]
    IN  IF tbl = <<>> THEN <<row>> ELSE [tbl EXCEPT ![Len(tbl)] = row]

\* INSERT INTO trades: status as given, opened_at = CURRENT_TIMESTAMP, every
\* column that is not listed NULL.
save_trade(tbl, t, clock) ==
    Append(tbl,
        [id |-> Len(tbl) + 1, symbol |-> t.symbol, side |-> t.side,
         quantity |-> t.quantity, entry_price |-> t.entry_price,
         exit_price |-> NULL, stop_loss |-> t.stop_loss,
         take_profit |-> t.take_profit, status |-> t.status,
         pnl |-> NULL, pnl_percent |-> NULL,
         opened_at |-> clock, closed_at |-> NoTime])

\* UPDATE trades SET <key> = ? ...: fails (sqlite3.OperationalError) when a key
\* is no column of the table.
update_trade_ok(updates) == DOMAIN updates \subseteq TradeColumns

\* Faulty variant: closing does not stamp closed_at.
update_trade_no_closed_at(tbl, trade_id, updates, clock) ==
    LET set(row) ==
            [c \in DOMAIN row |-> IF c \in DOMAIN updates THEN updates[c] ELSE row[c]]
    IN  [i \in DOMAIN tbl |-> IF tbl[i].id = trade_id THEN set(tbl[i]) ELSE tbl[i]]

update_trade(tbl, trade_id, updates, clock) ==
    LET closing == "status" \in DOMAIN updates /\ updates.status = "CLOSED"
        set(row) ==
            [c \in DOMAIN row |->
                IF c \in DOMAIN updates THEN updates[c]
                ELSE IF c = "closed_at" /\ closing THEN clock
                ELSE row[c]]
    IN  [i \in DOMAIN tbl |-> IF tbl[i].id = trade_id THEN set(tbl[i]) ELSE tbl[i]]

\* ORDER BY opened_at DESC (rows of one timestamp: the newest row first).
Newest(S) ==
    CHOOSE r \in S : \A q \in S :
        q.opened_at < r.opened_at \/ (q.opened_at = r.opened_at /\ q.id <= r.id)

RECURSIVE OrderDesc(_)
OrderDesc(S) ==
    IF S = {} THEN <<>>
    ELSE LET r == Newest(S) IN <<r>> \o OrderDesc(S \ {r})

Rows(tbl) == {tbl[i] : i \in DOMAIN tbl}

\* Faulty variant: the query does not filter on status.
get_open_trades_any_status(tbl, symbol) ==
    OrderDesc({r \in Rows(tbl) : symbol = AllSymbols \/ r.symbol = symbol})

get_open_trades(tbl, symbol) ==
    OrderDesc({r \in Rows(tbl) :
        r.status = "OPEN" /\ (symbol = AllSymbols \/ r.symbol = symbol)})

get_trades_today(tbl, clock) ==
    OrderDesc({r \in Rows(tbl) : DateOf(r.opened_at) = DateOf(clock)})

get_last_trade(tbl, symbol) ==
    LET S == {r \in Rows(tbl) : r.symbol = symbol}
    IN  IF S = {} THEN <<>> ELSE <<Newest(S)>>

\* ------------------------------------------------------------- RiskManager
\* row.get(key, 0) or 0
RowNum(row, key) ==
    IF key \in DOMAIN row /\ IsNum(row[key]) THEN row[key] ELSE R(0)

RECURSIVE SumSeq(_, _)
SumSeq(rows, key) ==
    IF rows = <<>> THEN R(0)
    ELSE RAdd(RowNum(Head(rows), key), SumSeq(Tail(rows), key))

\* Faulty variant: every trade of today counts, whatever its status.
calculate_daily_pnl_any_status(trades_today, open_trades) ==
    RAdd(SumSeq(trades_today, "pnl"), SumSeq(open_trades, "unrealized_pnl"))

calculate_daily_pnl(trades_today, open_trades) ==
    LET closed == SelectSeq(trades_today, LAMBDA t : t.status = "CLOSED")
    IN  RAdd(SumSeq(closed, "pnl"), SumSeq(open_trades, "unrealized_pnl"))

\* A timestamp as is_in_cooldown may get it: the hour it denotes and its form,
\* "naive" ('YYYY-MM-DD HH:MM:SS', what SQLite's CURRENT_TIMESTAMP stores, in
\* UTC), "Z" or "+00:00" (UTC-suffixed), "garbage" (no ISO date) or "none"
\* (NULL or empty).
Stamp(at, form) == [at |-> at, form |-> form]
Stored(opened_at) ==
    IF opened_at = NoTime THEN Stamp(opened_at, "none") ELSE Stamp(opened_at, "naive")

\* datetime.fromisoformat(opened_at.replace('Z', '+00:00')): an offset in the
\* text gives an aware datetime, no offset a naive one.
fromisoformat(stamp) ==
    [at |-> stamp.at, aware |-> stamp.form \in {"Z", "+00:00"},
     raises |-> stamp.form = "garbage"]

\* Faulty variant: an elapsed time equal to the cooldown still counts.
in_cooldown_inclusive(stamp, local) ==
    IF stamp.form = "none" THEN FALSE
    ELSE IF fromisoformat(stamp).raises \/ fromisoformat(stamp).aware THEN FALSE
    ELSE local - fromisoformat(stamp).at <= cooldown_hours

\* The body of is_in_cooldown from opened_at on; local is datetime.now(), the
\* host's local time as a naive datetime. Subtracting an aware datetime from
\* a naive one raises TypeError, which the except turns into False like a
\* parse error.
in_cooldown(stamp, local) ==
    IF stamp.form = "none" THEN FALSE
    ELSE IF fromisoformat(stamp).raises \/ fromisoformat(stamp).aware THEN FALSE
    ELSE local - fromisoformat(stamp).at < cooldown_hours

\* last_trade is <<>> (None) or <<row>> with the row as the repository
\* returns it.
is_in_cooldown(last_trade, local) ==
    IF last_trade = <<>> THEN FALSE
    ELSE in_cooldown(Stored(last_trade[1].opened_at), local)

Accept(why) == [done |-> TRUE, valid |-> TRUE, rule |-> 0, reason |-> why]
Reject(n, why) == [done |-> TRUE, valid |-> FALSE, rule |-> n, reason |-> why]

rule1_confidence(signal) == signal.confidence < min_confidence

\* Faulty variant: the count must exceed the maximum.
rule3_max_open_strict(signal, open_trades) ==
    signal.action \in {"BUY", "SELL"} /\ Len(open_trades) > max_open_positions

rule3_max_open(signal, open_trades) ==
    signal.action \in {"BUY", "SELL"} /\ Len(open_trades) >= max_open_positions

\* Faulty variant: a daily PnL at the limit is rejected too.
rule4_drawdown_inclusive(portfolio_balance, open_trades, trades_today) ==
    RLe(calculate_daily_pnl(trades_today, open_trades),
        RNeg(RMul(portfolio_balance, max_daily_drawdown)))

rule4_drawdown(portfolio_balance, open_trades, trades_today) ==
    RLt(calculate_daily_pnl(trades_today, open_trades),
        RNeg(RMul(portfolio_balance, max_daily_drawdown)))

rule5_cooldown(signal, last_trade, local) ==
    last_trade # <<>> /\ signal.action \in {"BUY", "SELL"}
        /\ is_in_cooldown(last_trade, local)

\* Faulty variant: a ratio at the minimum is rejected too.
rule6_reward_risk_inclusive(signal) ==
    LET entry == Get(signal.entry_price)
        stop_loss == Get(signal.stop_loss)
        take_profit == Get(signal.take_profit)
        risk == RAbs(RSub(entry, stop_loss))
        reward == RAbs(RSub(take_profit, entry))
    IN  IF signal.action \notin {"BUY", "SELL"} THEN ""
        ELSE IF Truthy(entry) /\ Truthy(stop_loss) /\ Truthy(take_profit)
        THEN IF RLt(R(0), risk)
             THEN IF RLe(RDiv(reward, risk), min_reward_risk_ratio)
                  THEN "reward_risk" ELSE ""
             ELSE "invalid_stop_loss"
        ELSE "missing_prices"

\* Rule 6: "" when the rule passes, else the rejection.
rule6_reward_risk(signal) ==
    LET entry == Get(signal.entry_price)
        stop_loss == Get(signal.stop_loss)
        take_profit == Get(signal.take_profit)
        risk == RAbs(RSub(entry, stop_loss))
        reward == RAbs(RSub(take_profit, entry))
    IN  IF signal.action \notin {"BUY", "SELL"} THEN ""
        ELSE IF Truthy(entry) /\ Truthy(stop_loss) /\ Truthy(take_profit)
        THEN IF RLt(R(0), risk)
             THEN IF RLt(RDiv(reward, risk), min_reward_risk_ratio)
                  THEN "reward_risk" ELSE ""
             ELSE "invalid_stop_loss"
        ELSE "missing_prices"

\* Faulty variant: the upper end of the range is excluded.
rule7_position_size_below_five(signal) ==
    LET position_size_pct == Get(signal.position_size_pct)
    IN  signal.action \in {"BUY", "SELL"}
        /\ (~Truthy(position_size_pct)
            \/ RLt(position_size_pct, R(1)) \/ RLe(R(5), position_size_pct))

rule7_position_size(signal) ==
    LET position_size_pct == Get(signal.position_size_pct)
    IN  signal.action \in {"BUY", "SELL"}
        /\ (~Truthy(position_size_pct)
            \/ RLt(position_size_pct, R(1)) \/ RLt(R(5), position_size_pct))

\* Faulty variant: the reward:risk rule is consulted before the drawdown rule.
validate_signal_prices_first(signal, portfolio_balance, open_trades, trades_today, last_trade, local) ==
    IF rule1_confidence(signal) THEN Reject(1, "confidence")
    ELSE IF signal.action = "HOLD" THEN Accept("hold")
    ELSE IF rule6_reward_risk(signal) # "" THEN Reject(6, rule6_reward_risk(signal))
    ELSE IF rule3_max_open(signal, open_trades) THEN Reject(3, "max_open_positions")
    ELSE IF rule4_drawdown(portfolio_balance, open_trades, trades_today)
    THEN Reject(4, "daily_drawdown")
    ELSE IF rule5_cooldown(signal, last_trade, local) THEN Reject(5, "cooldown")
    ELSE IF rule7_position_size(signal) THEN Reject(7, "position_size")
    ELSE Accept("validated")

\* Faulty variant: the HOLD shortcut is taken before the confidence check.
validate_signal_hold_first(signal, portfolio_balance, open_trades, trades_today, last_trade, local) ==
    IF signal.action = "HOLD" THEN Accept("hold")
    ELSE IF rule1_confidence(signal) THEN Reject(1, "confidence")
    ELSE IF rule3_max_open(signal, open_trades) THEN Reject(3, "max_open_positions")
    ELSE IF rule4_drawdown(portfolio_balance, open_trades, trades_today)
    THEN Reject(4, "daily_drawdown")
    ELSE IF rule5_cooldown(signal, last_trade, local) THEN Reject(5, "cooldown")
    ELSE IF rule6_reward_risk(signal) # "" THEN Reject(6, rule6_reward_risk(signal))
    ELSE IF rule7_position_size(signal) THEN Reject(7, "position_size")
    ELSE Accept("validated")

validate_signal(signal, portfolio_balance, open_trades, trades_today, last_trade, local) ==
    IF rule1_confidence(signal) THEN Reject(1, "confidence")
    ELSE IF signal.action = "HOLD" THEN Accept("hold")
    ELSE IF rule3_max_open(signal, open_trades) THEN Reject(3, "max_open_positions")
    ELSE IF rule4_drawdown(portfolio_balance, open_trades, trades_today)
    THEN Reject(4, "daily_drawdown")
    ELSE IF rule5_cooldown(signal, last_trade, local) THEN Reject(5, "cooldown")
    ELSE IF rule6_reward_risk(signal) # "" THEN Reject(6, rule6_reward_risk(signal))
    ELSE IF rule7_position_size(signal) THEN Reject(7, "position_size")
    ELSE Accept("validated")


\* check_emergency_stop: (should_stop, reason), or ZeroDivisionError when
\* initial_balance is 0.
emergency_threshold == <<1, 10>>

check_emergency_stop(portfolio_balance, initial_balance) ==
    LET total_drawdown == RDiv(RSub(initial_balance, portfolio_balance), initial_balance)
    IN  IF RZero(initial_balance) THEN [raised |-> TRUE, stop |-> FALSE]
        ELSE [raised |-> FALSE, stop |-> RLe(emergency_threshold, total_drawdown)]

\* Python raises on arithmetic with None and on division by zero.
calculate_position_size_raises(signal, current_price) ==
    LET entry_price == GetDefault(signal.entry_price, current_price)
        stop_loss == Get(signal.stop_loss)
    IN  /\ Truthy(stop_loss)
        /\ stop_loss # entry_price
        /\ \/ ~IsNum(entry_price)
           \/ signal.position_size_pct = NULL
           \/ RZero(entry_price)

\* Faulty variant: the larger of the two sizes.
calculate_position_size_larger(signal, portfolio_balance, current_price) ==
    LET entry_price == GetDefault(signal.entry_price, current_price)
        stop_loss == Get(signal.stop_loss)
        position_size == RDiv(RMul(portfolio_balance, max_risk_per_trade),
                              RAbs(RSub(entry_price, stop_loss)))
        position_size_pct == RDiv(GetDefault(signal.position_size_pct, R(2)), R(100))
        max_position_size == RDiv(RMul(portfolio_balance, position_size_pct), entry_price)
    IN  IF ~Truthy(stop_loss) \/ stop_loss = entry_price THEN R(0)
        ELSE IF RLt(position_size, max_position_size) THEN max_position_size
        ELSE position_size

calculate_position_size(signal, portfolio_balance, current_price) ==
    LET entry_price == GetDefault(signal.entry_price, current_price)
        stop_loss == Get(signal.stop_loss)
        risk_amount == RMul(portfolio_balance, max_risk_per_trade)
        risk_per_unit == RAbs(RSub(entry_price, stop_loss))
        position_size == RDiv(risk_amount, risk_per_unit)
        position_size_pct == RDiv(GetDefault(signal.position_size_pct, R(2)), R(100))
        max_position_value == RMul(portfolio_balance, position_size_pct)
        max_position_size == RDiv(max_position_value, entry_price)
    IN  IF ~Truthy(stop_loss) \/ stop_loss = entry_price THEN R(0)
        ELSE RMin(position_size, max_position_size)

\* ----------------------------------------------------------- DataCollector
\* The retry loop of fetch_candles, fetch_ticker, fetch_balance and
\* fetch_open_positions. answers[k]: what the exchange does at the k-th
\* request, "ok" or the exception it raises. The result says whether the fetch
\* returned or what it raised, how many requests it made and the seconds it
\* slept between them.
max_retries == 3
retry_delay == 1

Fetched(attempts, slept) ==
    [returned |-> TRUE, raised |-> "-", attempts |-> attempts, slept |-> slept]
FetchRaised(kind, attempts, slept) ==
    [returned |-> FALSE, raised |-> kind, attempts |-> attempts, slept |-> slept]

\* Faulty variant: every exception is retried.
RECURSIVE fetch_loop_retry_all(_, _, _)
fetch_loop_retry_all(answers, attempt, slept) ==
    IF attempt >= max_retries THEN Fetched(attempt, slept)
    ELSE IF answers[attempt + 1] = "ok" THEN Fetched(attempt + 1, slept)
    ELSE IF attempt < max_retries - 1
    THEN fetch_loop_retry_all(answers, attempt + 1,
                              Append(slept, retry_delay * (2 ^ attempt)))
    ELSE FetchRaised(answers[attempt + 1], attempt + 1, slept)

\* for attempt in range(max_retries), from iteration attempt on.
RECURSIVE fetch_loop(_, _, _)
fetch_loop(answers, attempt, slept) ==
    IF attempt >= max_retries THEN Fetched(attempt, slept)
    ELSE IF answers[attempt + 1] = "ok" THEN Fetched(attempt + 1, slept)
    ELSE IF answers[attempt + 1] = "NetworkError"
    THEN IF attempt < max_retries - 1
         THEN fetch_loop(answers, attempt + 1,
                         Append(slept, retry_delay * (2 ^ attempt)))
         ELSE FetchRaised("NetworkError", attempt + 1, slept)
    ELSE FetchRaised(answers[attempt + 1], attempt + 1, slept)

\* what: "candles", "ticker", "balance" or "positions"; in demo mode the
\* balance and the positions are answered without a request.
fetch_with_retry(what, demo, answers) ==
    IF demo /\ what \in {"balance", "positions"} THEN Fetched(0, <<>>)
    ELSE fetch_loop(answers, 0, <<>>)

\* ----------------------------------------------------------- TradeExecutor
\* What exchange.create_market_order does: it returns an order, of which the
\* executor reads 'average' and 'price', or raises one of ccxt's errors.
Order(average, price) == [kind |-> "ok", average |-> average, price |-> price]
Raised(kind) == [kind |-> kind, average |-> NULL, price |-> NULL]

\* order.get('average') or order.get('price', 0)
order_price(order) == Or(Get(order.average), GetDefault(order.price, R(0)))

\* Faulty variant: a failed placement is reported as a success without a price.
place_market_order_always_ok(order) ==
    [success |-> TRUE, price |-> IF order.kind = "ok" THEN order_price(order) ELSE ABSENT,
     error |-> "", attempts |-> 1]

\* attempts: the calls of exchange.create_market_order made.
place_market_order(order) ==
    IF order.kind = "ok"
    THEN [success |-> TRUE, price |-> order_price(order), error |-> "", attempts |-> 1]
    ELSE [success |-> FALSE, price |-> ABSENT,
          error |-> CASE order.kind = "InsufficientFunds" -> "Insufficient funds"
                      [] order.kind = "InvalidOrder" -> "Invalid order"
                      [] order.kind = "NetworkError" -> "Network error"
                      [] OTHER -> "Unknown error",
          attempts |-> 1]

close_position(order) ==
    IF order.kind = "ok"
    THEN [success |-> TRUE, price |-> order_price(order), error |-> ""]
    ELSE [success |-> FALSE, price |-> ABSENT, error |-> "Failed to close position"]


\* ------------------------------------------------------ environment inputs
Balances == {R(10000)}
\* The balance initialize_modules fetched at startup.
initial_balance == CHOOSE b \in Balances : TRUE
\* Balances the venue reports later on: 20% below the initial one, and none.
LowBalances == {R(8000), R(0)}
CurrentPrices == {R(101)}

Signal(action, confidence, entry, stop, target, pct, adjust) ==
    [action |-> action, confidence |-> confidence, entry_price |-> entry,
     stop_loss |-> stop, take_profit |-> target, position_size_pct |-> pct,
     adjust_stop_loss |-> adjust, error |-> FALSE]

\* _default_hold_signal: what get_ai_signal returns when anything fails.
default_hold_signal ==
    [Signal("HOLD", 0, NULL, NULL, NULL, NULL, NULL) EXCEPT !.error = TRUE]

\* The JSON objects a model response can carry.
ResponseSignals ==
    {Signal("BUY", 80, R(100), R(98), R(104), R(2), NULL),
     Signal("SELL", 80, R(100), R(102), R(96), R(2), NULL),
     Signal("BUY", 65, R(100), R(98), R(104), R(2), NULL),
     Signal("BUY", 80, R(100), R(95), R(105), R(2), NULL),
     Signal("CLOSE", 80, NULL, NULL, NULL, NULL, NULL),
     Signal("HOLD", 80, NULL, NULL, NULL, NULL, R(99))}

\* How a signal request goes: the package is missing, no API key is
\* configured, the API call raises, the response holds no JSON object, the
\* object lacks a required field, or the response parses.
AiFailures == {"unavailable", "no_key", "api_error", "no_json", "missing_field"}

AiResponses ==
    [kind : {"ok"}, json : ResponseSignals]
        \cup [kind : AiFailures,
              json : {Signal("BUY", 80, R(100), R(98), R(104), R(2), NULL)}]

\* Faulty variant: a failed request keeps what the response carried.
get_ai_signal_keep_response(response) ==
    IF response.kind = "ok" THEN response.json
    ELSE [response.json EXCEPT !.error = TRUE]

\* Every failure, raised or not, ends in _default_hold_signal.
get_ai_signal(response) ==
    IF response.kind = "ok" THEN response.json ELSE default_hold_signal

Signals == {get_ai_signal(response) : response \in AiResponses}

OpenOrders ==
    {Order(R(100), NULL), Order(NULL, ABSENT), Order(NULL, NULL),
     Raised("InsufficientFunds"), Raised("InvalidOrder"), Raised("NetworkError"),
     Raised("Error")}

CloseOrders == {Order(R(110), NULL), Order(NULL, NULL), Raised("NetworkError")}

\* One trade's view of the venue in a monitoring cycle: the outcome of
\* fetch_open_positions and of fetch_ticker, the position's unrealizedPnl and
\* the ticker's 'last'.
MonitorInputs ==
    {[positions |-> "error", ticker |-> "-", unrealized_pnl |-> NULL, price |-> NULL]}
    \cup {[positions |-> "ok", ticker |-> "error", unrealized_pnl |-> R(-30), price |-> NULL]}
    \cup {[positions |-> "ok", ticker |-> "ok", unrealized_pnl |-> R(-30), price |-> p] :
            p \in {NULL, R(110)}}

\* ------------------------------------------------------------ the step log
\* op/sym/action: the task, its symbol and the signal's action; outcome: the
\* branch it ended in; rule: the rejecting rule; orders/closes/adjusts: calls of
\* place_market_order/close_position/adjust_stop_loss; answer: what the exchange
\* did with the order; price: the 'price' of the executor's result; alerts: the
\* notifications sent; id: the trade written; mon[id]: the venue as the loop
\* body of run_monitor saw it for trade id.
Idle ==
    [op |-> "idle", sym |-> "-", action |-> "-", outcome |-> "-", rule |-> 0,
     orders |-> 0, closes |-> 0, adjusts |-> 0, alerts |-> {}, price |-> NULL,
     answer |-> "-", id |-> 0, mon |-> <<>>, snapshot |-> "-", balance |-> NULL,
     ai_error |-> FALSE, exited |-> FALSE]

Did(op, sym, action, outcome) ==
    [Idle EXCEPT !.op = op, !.sym = sym, !.action = action, !.outcome = outcome]

Effect(tbl, ven, log) == [trades |-> tbl, venue |-> ven, last |-> log]

\* Faulty variant: the exception leaves the task and ends the process.
Failed_terminates(tbl, ven, log) ==
    Effect(tbl, ven, [log EXCEPT !.outcome = "error", !.exited = TRUE])

\* The outer "except Exception" of a task: log, send an error alert.
Failed(tbl, ven, log) ==
    Effect(tbl, ven, [log EXCEPT !.outcome = "error", !.alerts = {"error"}])


\* -------------------------------------------------------------- run_analysis
\* Faulty variant: only demo mode keeps the executor out.
live_unless_demo == mode # "demo"

\* not dry_run and executor
live == mode = "live"

\* collector.fetch_open_positions(symbol): nothing in demo mode.
fetch_open_positions(symbol) == mode # "demo" /\ venue[symbol]

\* pnl and pnl_percent of the explicit close (main.py 232-235).
close_pnl(trade, exit_price) ==
    RMul(RSub(exit_price, trade.entry_price), trade.quantity)

close_pnl_percent(trade, exit_price) ==
    RMul(RDiv(close_pnl(trade, exit_price), RMul(trade.entry_price, trade.quantity)),
         R(100))

close_raises(trade, exit_price) ==
    ~IsNum(exit_price) \/ RZero(RMul(trade.entry_price, trade.quantity))

\* Faulty variant: the order goes to the gateway before the validator is asked.
analysis_open_order_first(symbol, signal, portfolio_balance, current_price, order, log) ==
    LET v == validate_signal(signal, portfolio_balance, get_open_trades(trades, symbol),
                             get_trades_today(trades, now),
                             get_last_trade(trades, symbol), now + tz)
    IN  Effect(trades, [venue EXCEPT ![symbol] = TRUE],
               [log EXCEPT !.outcome = IF v.valid THEN "order_failed" ELSE "rejected",
                           !.rule = v.rule, !.orders = 1])

\* action in ['BUY', 'SELL']
analysis_open(symbol, signal, portfolio_balance, current_price, order, log) ==
    LET open_trades == get_open_trades(trades, symbol)
        trades_today == get_trades_today(trades, now)
        last_trade == get_last_trade(trades, symbol)
        v == validate_signal(signal, portfolio_balance, open_trades, trades_today,
                             last_trade, now + tz)
        position_size == calculate_position_size(signal, portfolio_balance, current_price)
        trade_result == place_market_order(order)
        placed == [log EXCEPT !.orders = 1, !.answer = order.kind,
                               !.price = trade_result.price]
        row == [symbol |-> symbol, side |-> signal.action, quantity |-> position_size,
                entry_price |-> GetDefault(trade_result.price, current_price),
                stop_loss |-> Get(signal.stop_loss),
                take_profit |-> Get(signal.take_profit), status |-> "OPEN"]
    IN  IF ~v.valid
        THEN Effect(trades, venue, [log EXCEPT !.outcome = "rejected", !.rule = v.rule])
        ELSE IF calculate_position_size_raises(signal, current_price)
        THEN Failed(trades, venue, log)
        ELSE IF ~live
        THEN Effect(trades, venue, [log EXCEPT !.outcome = "dry_run", !.alerts = {"trade"}])
        ELSE IF ~trade_result.success
        THEN Effect(trades, venue,
                    [placed EXCEPT !.outcome = "order_failed", !.alerts = {"error"}])
        ELSE IF ~save_trade_ok(row)
        THEN Failed(trades, [venue EXCEPT ![symbol] = TRUE], placed)
        ELSE Effect(save_trade(trades, row, now), [venue EXCEPT ![symbol] = TRUE],
                    [placed EXCEPT !.outcome = "opened", !.alerts = {"trade"},
                                   !.id = Len(trades) + 1])

\* Faulty variant: a failed close is tried a second time.
analysis_close_retry(symbol, signal, order, log) ==
    IF ~fetch_open_positions(symbol)
    THEN Effect(trades, venue, [log EXCEPT !.outcome = "no_position"])
    ELSE IF ~live
    THEN Effect(trades, venue, [log EXCEPT !.outcome = "dry_run"])
    ELSE Effect(trades, venue,
                [log EXCEPT !.closes = IF close_position(order).success THEN 1 ELSE 2,
                            !.answer = order.kind, !.outcome = "close_failed"])

\* action == 'CLOSE'
analysis_close(symbol, signal, order, log) ==
    LET close_result == close_position(order)
        called == [log EXCEPT !.closes = 1, !.answer = order.kind,
                               !.price = close_result.price]
        gone == [venue EXCEPT ![symbol] = FALSE]
        open_trades == get_open_trades(trades, symbol)
        trade == open_trades[1]
        exit_price == GetDefault(close_result.price, R(0))
        updates == [exit_price |-> exit_price, pnl |-> close_pnl(trade, exit_price),
                    pnl_percent |-> close_pnl_percent(trade, exit_price),
                    status |-> "CLOSED"]
    IN  IF ~fetch_open_positions(symbol)
        THEN Effect(trades, venue, [log EXCEPT !.outcome = "no_position"])
        ELSE IF ~live
        THEN Effect(trades, venue, [log EXCEPT !.outcome = "dry_run"])
        ELSE IF ~close_result.success
        THEN Effect(trades, venue, [called EXCEPT !.outcome = "close_failed"])
        ELSE IF open_trades = <<>>
        THEN Effect(trades, gone, [called EXCEPT !.outcome = "closed_untracked"])
        ELSE IF close_raises(trade, exit_price) \/ ~update_trade_ok(updates)
        THEN Failed(trades, gone, [called EXCEPT !.id = trade.id])
        ELSE Effect(update_trade(trades, trade.id, updates, now), gone,
                    [called EXCEPT !.outcome = "closed", !.alerts = {"trade"},
                                   !.id = trade.id])

\* action == 'HOLD'
analysis_hold(symbol, signal, log) ==
    IF Truthy(signal.adjust_stop_loss) /\ fetch_open_positions(symbol) /\ live
    THEN Effect(trades, venue, [log EXCEPT !.outcome = "hold", !.adjusts = 1])
    ELSE Effect(trades, venue, [log EXCEPT !.outcome = "hold"])

\* fetch: whether steps 1-6 (candles, indicators, balance, positions, saving the
\* signal) went through; any exception there ends the cycle in the outer except.
run_analysis(symbol, fetch, balance, signal, current_price, open_order, close_order) ==
    LET portfolio_balance == IF mode = "demo" THEN R(mock_balance) ELSE balance
        log == [Did("analysis", symbol, signal.action, "-") EXCEPT
                    !.balance = portfolio_balance, !.ai_error = signal.error]
    IN  IF fetch = "error" THEN Failed(trades, venue, Did("analysis", symbol, "-", "-"))
        ELSE IF signal.action \in {"BUY", "SELL"}
        THEN analysis_open(symbol, signal, portfolio_balance, current_price,
                           open_order, log)
        ELSE IF signal.action = "CLOSE"
        THEN analysis_close(symbol, signal, close_order, log)
        ELSE analysis_hold(symbol, signal, log)

\* The gateway answers only the calls the cycle makes.
NoOrder == Raised("-")

validated(symbol, balance, signal) ==
    validate_signal(signal, IF mode = "demo" THEN R(mock_balance) ELSE balance,
                    get_open_trades(trades, symbol), get_trades_today(trades, now),
                    get_last_trade(trades, symbol), now + tz).valid

\* One analysis cycle with the signal source answering from Sigs and the
\* gateway from Opens and Closes; the table holds at most cap rows.
AnalysisWith(symbol, Bals, Sigs, Opens, Closes, cap) ==
    /\ last = Idle
    /\ \E balance \in Bals, current_price \in CurrentPrices :
        \/ \E signal \in Sigs :
            \E open_order \in
                    (IF live /\ signal.action \in {"BUY", "SELL"}
                        /\ validated(symbol, balance, signal)
                     THEN Opens ELSE {NoOrder}),
               close_order \in
                    (IF live /\ signal.action = "CLOSE" /\ fetch_open_positions(symbol)
                     THEN Closes ELSE {NoOrder}) :
                LET e == run_analysis(symbol, "ok", balance, signal, current_price,
                                      open_order, close_order)
                IN  /\ Len(e.trades) <= cap
                    /\ trades' = e.trades
                    /\ venue' = e.venue
                    /\ last' = e.last
        \/ LET e == run_analysis(symbol, "error", balance, default_hold_signal,
                                 current_price, NoOrder, NoOrder)
           IN  /\ trades' = e.trades
               /\ venue' = e.venue
               /\ last' = e.last
    /\ UNCHANGED <<now, tz, mode, vin, vout, vsize, vcall>>

Analysis(symbol, Sigs, Opens, Closes, cap) ==
    AnalysisWith(symbol, Balances, Sigs, Opens, Closes, cap)

RunAnalysis(symbol) == Analysis(symbol, Signals, OpenOrders, CloseOrders, MaxTrades)

\* --------------------------------------------------------------- run_monitor
\* pnl and pnl_percent of the implicit close (main.py 305-314).
\* Faulty variant: the long formula for either side.
monitor_pnl_long_only(trade, exit_price) ==
    RMul(RSub(exit_price, trade.entry_price), trade.quantity)

monitor_pnl(trade, exit_price) ==
    IF trade.side = "BUY"
    THEN RMul(RSub(exit_price, trade.entry_price), trade.quantity)
    ELSE RMul(RSub(trade.entry_price, exit_price), trade.quantity)

monitor_pnl_percent(trade, exit_price) ==
    LET cost == RMul(trade.entry_price, trade.quantity)
    IN  IF RLt(R(0), cost)
        THEN RMul(RDiv(monitor_pnl(trade, exit_price), cost), R(100))
        ELSE R(0)

Seen(tag, price) == [tag |-> tag, price |-> price]

\* Faulty variant: a trade without a venue position is left as it is.
monitor_outcome_never_gone(trade, in) ==
    IF mode # "demo" /\ in.positions = "error" THEN Seen("positions_error", NULL)
    ELSE IF fetch_open_positions(trade.symbol)
    THEN Seen("updated", GetDefault(in.unrealized_pnl, R(0)))
    ELSE Seen("ticker_error", NULL)

\* Faulty variant: a failed fetch of the positions counts as no position.
monitor_outcome_error_is_gone(trade, in) ==
    LET exit_price == GetDefault(GetDefault(in.price, R(0)), R(0))
    IN  IF in.positions = "ok" /\ fetch_open_positions(trade.symbol)
        THEN Seen("updated", GetDefault(in.unrealized_pnl, R(0)))
        ELSE IF in.ticker = "error" THEN Seen("ticker_error", NULL)
        ELSE Seen("closed", IF IsNum(exit_price) THEN exit_price ELSE R(0))

\* What the loop body does with one OPEN trade: the tag says how it ended.
monitor_outcome(trade, in) ==
    LET unrealized == [unrealized_pnl |-> GetDefault(in.unrealized_pnl, R(0))]
        \* ticker['price'] is exchange ticker.get('last', 0)
        exit_price == GetDefault(GetDefault(in.price, R(0)), R(0))
    IN  IF mode # "demo" /\ in.positions = "error" THEN Seen("positions_error", NULL)
        ELSE IF fetch_open_positions(trade.symbol)
        THEN IF update_trade_ok(unrealized)
             THEN Seen("updated", unrealized.unrealized_pnl)
             ELSE Seen("update_error", NULL)
        ELSE IF in.ticker # "ok" THEN Seen("ticker_error", NULL)
        ELSE IF ~IsNum(exit_price) THEN Seen("pnl_error", exit_price)
        ELSE Seen("closed", exit_price)

monitor_trade(tbl, trade, in) ==
    LET seen == monitor_outcome(trade, in)
    IN  IF seen.tag = "updated"
        THEN update_trade(tbl, trade.id, [unrealized_pnl |-> seen.price], now)
        ELSE IF seen.tag = "closed"
        THEN update_trade(tbl, trade.id,
                 [exit_price |-> seen.price, pnl |-> monitor_pnl(trade, seen.price),
                  pnl_percent |-> monitor_pnl_percent(trade, seen.price),
                  status |-> "CLOSED"], now)
        ELSE tbl

RECURSIVE monitor_loop(_, _, _)
monitor_loop(tbl, open_trades, ins) ==
    IF open_trades = <<>> THEN tbl
    ELSE monitor_loop(monitor_trade(tbl, Head(open_trades), ins[Head(open_trades).id]),
                      Tail(open_trades), ins)

\* ins[id]: the venue as the loop body of trade id sees it; snapshot: whether
\* the portfolio snapshot at the end of the cycle went through.
run_monitor(ins, snapshot) ==
    LET open_trades == get_open_trades(trades, AllSymbols)
        ids == {open_trades[i].id : i \in DOMAIN open_trades}
    IN  Effect(monitor_loop(trades, open_trades, ins), venue,
               [Did("monitor", "-", "-", "done") EXCEPT
                    !.mon = [i \in ids |-> ins[i]],
                    !.snapshot = snapshot])

\* The symbols of the trades the cycle iterates over.
OpenSymbols ==
    LET open_trades == get_open_trades(trades, AllSymbols)
    IN  {open_trades[i].symbol : i \in DOMAIN open_trades}

\* The collector is asked for the ticker only when no position is found, and
\* in demo mode fetch_open_positions never fails.
MonitorInputsFor(symbol) ==
    {in \in MonitorInputs :
        /\ mode = "demo" => in.positions = "ok"
        /\ fetch_open_positions(symbol) /\ in.positions = "ok"
            => in.ticker = "ok" /\ in.price = NULL}

\* The venue answers alike for every trade of one symbol within a cycle.
RunMonitor ==
    /\ last = Idle
    /\ \E by_symbol \in [OpenSymbols -> MonitorInputs], snapshot \in {"saved", "error"} :
        /\ \A s \in OpenSymbols : by_symbol[s] \in MonitorInputsFor(s)
        /\ LET ins == [i \in DOMAIN trades |->
                         IF trades[i].symbol \in OpenSymbols
                         THEN by_symbol[trades[i].symbol]
                         ELSE CHOOSE in \in MonitorInputs : TRUE]
               e == run_monitor(ins, snapshot)
           IN  /\ trades' = e.trades
               /\ venue' = e.venue
               /\ last' = e.last
    /\ UNCHANGED <<now, tz, mode, vin, vout, vsize, vcall>>

\* ---------------------------------------------------------- run_daily_report
RunDailyReport ==
    /\ last = Idle
    /\ now % HoursPerDay = HoursPerDay - 1
    /\ \E sent \in {"daily_report", "error"} :
        last' = Did("report", "-", "-", sent)
    /\ UNCHANGED <<trades, venue, now, tz, mode, vin, vout, vsize, vcall>>

\* -------------------------------------------------------------- environment
\* schedule.run_pending() returned: the main loop sleeps until a job is due.
ReturnToLoop ==
    /\ last # Idle
    /\ ~last.exited
    /\ last' = Idle
    /\ UNCHANGED <<trades, venue, now, tz, mode, vin, vout, vsize, vcall>>

Tick(hours) ==
    /\ last = Idle
    /\ now < StartHour + MaxTicks * hours
    /\ now' = now + hours
    /\ UNCHANGED <<trades, venue, tz, mode, last, vin, vout, vsize, vcall>>

\* The venue fills a stop-loss or take-profit order: the position is gone.
VenueFill(symbol) ==
    /\ last = Idle
    /\ venue[symbol]
    /\ venue' = [venue EXCEPT ![symbol] = FALSE]
    /\ UNCHANGED <<trades, now, tz, mode, last, vin, vout, vsize, vcall>>

\* ------------------------------------------------------------ signal_handler
\* SIGINT or SIGTERM. The handler runs in the main thread wherever that thread
\* is, sends the shutdown notification, closes the database and raises
\* SystemExit, which no "except Exception" of the task in progress catches.
\* e: what the task in progress does when it is left alone; at: how far it has
\* come when the signal arrives.
ShutdownPoints == {"before_gateway", "after_gateway", "after_repository"}

signal_handler(e, at) ==
    CASE at = "before_gateway" ->
            Effect(trades, venue,
                   [Did(e.last.op, e.last.sym, e.last.action, "interrupted") EXCEPT
                        !.alerts = {"shutdown"}, !.exited = TRUE])
      [] at = "after_gateway" ->
            Effect(trades, e.venue,
                   [e.last EXCEPT !.outcome = "interrupted", !.alerts = {"shutdown"},
                                  !.exited = TRUE])
      [] at = "after_repository" ->
            Effect(e.trades, e.venue,
                   [e.last EXCEPT !.alerts = @ \cup {"shutdown"}, !.exited = TRUE])

\* The signal arrives while the main loop sleeps between two jobs.
ShutdownInLoop ==
    /\ last = Idle
    /\ last' = [Did("shutdown", "-", "-", "-") EXCEPT
                    !.alerts = {"shutdown"}, !.exited = TRUE]
    /\ UNCHANGED <<trades, venue, now, tz, mode, vin, vout, vsize, vcall>>

\* The signal arrives while run_analysis(symbol) is executing.
ShutdownInAnalysis(symbol) ==
    /\ last = Idle
    /\ \E balance \in Balances, current_price \in CurrentPrices, signal \in Signals,
          at \in ShutdownPoints :
        \E open_order \in
                (IF live /\ signal.action \in {"BUY", "SELL"}
                    /\ validated(symbol, balance, signal)
                 THEN OpenOrders ELSE {NoOrder}),
           close_order \in
                (IF live /\ signal.action = "CLOSE" /\ fetch_open_positions(symbol)
                 THEN CloseOrders ELSE {NoOrder}) :
            LET e == signal_handler(run_analysis(symbol, "ok", balance, signal,
                                                 current_price, open_order, close_order),
                                    at)
            IN  /\ Len(e.trades) <= MaxTrades
                /\ trades' = e.trades
                /\ venue' = e.venue
                /\ last' = e.last
    /\ UNCHANGED <<now, tz, mode, vin, vout, vsize, vcall>>

\* ----------------------------------------------------- RiskManager calls
\* A call of validate_signal on arguments of its own, outside any cycle.
NoCall ==
    [signal |-> default_hold_signal, portfolio_balance |-> R(0), open_trades |-> <<>>,
     trades_today |-> <<>>, last_trade |-> <<>>, local |-> StartHour,
     current_price |-> R(0)]

NoResult == [done |-> FALSE, valid |-> FALSE, rule |-> 0, reason |-> ""]
NoSize == [done |-> FALSE, raised |-> FALSE, size |-> NULL]

\* A row as the repository returns it.
Row(id, status, pnl, opened_at) ==
    [id |-> id, symbol |-> "X", side |-> "BUY", quantity |-> R(2),
     entry_price |-> R(100), exit_price |-> IF status = "CLOSED" THEN R(90) ELSE NULL,
     stop_loss |-> R(98), take_profit |-> R(104), status |-> status, pnl |-> pnl,
     pnl_percent |-> IF status = "CLOSED" THEN R(-10) ELSE NULL,
     opened_at |-> opened_at,
     closed_at |-> IF status = "CLOSED" THEN opened_at ELSE NoTime]

\* A row as a caller may hand it over with the venue's unrealized figure.
RowWith(row, unrealized_pnl) ==
    [c \in DOMAIN row \cup {"unrealized_pnl"} |->
        IF c = "unrealized_pnl" THEN unrealized_pnl ELSE row[c]]

\* Price fields: none; reward:risk 2, 3/2 and 1; stop at entry; stop missing;
\* reward:risk 5/2 with a take-profit of zero.
CallPrices ==
    {<<NULL, NULL, NULL>>, <<R(100), R(98), R(104)>>, <<R(100), R(98), R(103)>>,
     <<R(100), R(95), R(105)>>, <<R(100), R(100), R(104)>>,
     <<R(100), NULL, R(104)>>, <<R(40), R(56), R(0)>>}

CallSignals ==
    {Signal(a, c, p[1], p[2], p[3], pct, NULL) :
        a \in {"BUY", "SELL", "HOLD", "CLOSE"},
        c \in {0, 65, 69, 70, 100},
        p \in CallPrices,
        pct \in {NULL, Rat(1, 2), R(1), R(2), R(5), R(6)}}

CallOpenTrades ==
    {<<>>,
     <<RowWith(Row(1, "OPEN", NULL, StartHour), R(100))>>,
     <<Row(2, "OPEN", NULL, StartHour), Row(1, "OPEN", NULL, StartHour)>>,
     <<Row(3, "OPEN", NULL, StartHour), Row(2, "OPEN", NULL, StartHour),
       Row(1, "OPEN", NULL, StartHour)>>,
     <<Row(4, "OPEN", NULL, StartHour), Row(3, "OPEN", NULL, StartHour),
       Row(2, "OPEN", NULL, StartHour), Row(1, "OPEN", NULL, StartHour)>>}

CallTradesToday ==
    {<<>>,
     <<Row(5, "CLOSED", R(-700), StartHour)>>,
     <<Row(5, "CLOSED", R(-500), StartHour)>>,
     <<Row(6, "OPEN", NULL, StartHour), Row(5, "CLOSED", R(-600), StartHour)>>}

CallLastTrades ==
    {<<>>, <<Row(3, "OPEN", NULL, StartHour - 1)>>,
     <<Row(3, "OPEN", NULL, StartHour - cooldown_hours)>>}

Calls ==
    [signal : CallSignals, portfolio_balance : {R(0), R(10000)},
     open_trades : CallOpenTrades, trades_today : CallTradesToday,
     last_trade : CallLastTrades, local : {StartHour}, current_price : CurrentPrices]

CallValidate ==
    /\ ~vout.done
    /\ vout' = [validate_signal(vin.signal, vin.portfolio_balance, vin.open_trades,
                                vin.trades_today, vin.last_trade, vin.local)
                EXCEPT !.done = TRUE]
    /\ UNCHANGED <<trades, venue, now, tz, mode, last, vin, vsize, vcall>>

\* Signals for the sizing: reward:risk 2 with a near and with a far stop, long
\* and short; entry null, entry missing, stop null, stop at entry, entry zero.
SizePrices ==
    {<<R(100), R(98), R(104)>>, <<R(100), R(50), R(200)>>, <<R(100), R(102), R(96)>>,
     <<NULL, R(98), R(104)>>, <<ABSENT, R(98), R(104)>>, <<R(100), NULL, R(104)>>,
     <<R(100), R(100), R(104)>>, <<R(0), R(98), R(104)>>}

SizeSignals ==
    {Signal(a, c, p[1], p[2], p[3], pct, NULL) :
        a \in {"BUY", "SELL"}, c \in {65, 80}, p \in SizePrices,
        pct \in {NULL, ABSENT, R(1), R(2), R(5)}}

SizeCalls ==
    [signal : SizeSignals, portfolio_balance : {R(0), R(500), R(10000)},
     open_trades : {<<>>}, trades_today : {<<>>}, last_trade : {<<>>},
     local : {StartHour}, current_price : CurrentPrices]

\* validate_signal and then calculate_position_size on the same arguments, as
\* run_analysis calls them, the second whatever the first returned.
CallPositionSize ==
    /\ ~vsize.done
    /\ vout' = [validate_signal(vin.signal, vin.portfolio_balance, vin.open_trades,
                                vin.trades_today, vin.last_trade, vin.local)
                EXCEPT !.done = TRUE]
    /\ vsize' =
        IF calculate_position_size_raises(vin.signal, vin.current_price)
        THEN [done |-> TRUE, raised |-> TRUE, size |-> NULL]
        ELSE [done |-> TRUE, raised |-> FALSE,
              size |-> calculate_position_size(vin.signal, vin.portfolio_balance,
                                               vin.current_price)]
    /\ UNCHANGED <<trades, venue, now, tz, mode, last, vin, vcall>>

\* ------------------------------------------------------ other function calls
\* A call of function fn on args, before (done = FALSE) and after it returned.
Pending(fn, args) == [fn |-> fn, args |-> args, done |-> FALSE, result |-> <<>>]
NoPure == Pending("-", <<>>)
Returned(result) == [vcall EXCEPT !.done = TRUE, !.result = result]

PureFrame == UNCHANGED <<trades, venue, now, tz, mode, last, vin, vout, vsize>>

\* is_in_cooldown on a last trade opened at args.opened_at, on a host whose
\* local time is args.tz hours ahead of UTC, at UTC time args.now.
CooldownCalls ==
    {Pending("is_in_cooldown", [opened_at |-> Stamp(StartHour - ago, form),
                                now |-> StartHour, tz |-> offset]) :
        ago \in {1, cooldown_hours, cooldown_hours + 1},
        form \in {"naive", "Z", "+00:00", "garbage", "none"},
        offset \in {0, 3}}

CallIsInCooldown ==
    /\ vcall.fn = "is_in_cooldown" /\ ~vcall.done
    /\ vcall' = Returned(in_cooldown(vcall.args.opened_at,
                                     vcall.args.now + vcall.args.tz))
    /\ PureFrame

\* calculate_daily_pnl: trades of today that are CLOSED, still OPEN but with
\* a pnl of their own, and CLOSED without a pnl; open trades with, without and
\* with a null unrealized_pnl.
DailyTradesToday ==
    {<<>>,
     <<Row(5, "CLOSED", R(-700), StartHour)>>,
     <<Row(6, "OPEN", R(-50), StartHour), Row(5, "CLOSED", R(-600), StartHour)>>,
     <<Row(7, "CLOSED", NULL, StartHour), Row(6, "CLOSED", R(20), StartHour),
       Row(5, "CLOSED", R(-45), StartHour)>>}

DailyOpenTrades ==
    {<<>>,
     <<Row(1, "OPEN", NULL, StartHour)>>,
     <<RowWith(Row(1, "OPEN", NULL, StartHour), R(100))>>,
     <<RowWith(Row(2, "OPEN", NULL, StartHour), NULL),
       RowWith(Row(1, "OPEN", NULL, StartHour), R(-30))>>}

DailyPnlCalls ==
    {Pending("calculate_daily_pnl", [trades_today |-> t, open_trades |-> o]) :
        t \in DailyTradesToday, o \in DailyOpenTrades}

CallCalculateDailyPnl ==
    /\ vcall.fn = "calculate_daily_pnl" /\ ~vcall.done
    /\ vcall' = Returned(calculate_daily_pnl(vcall.args.trades_today,
                                             vcall.args.open_trades))
    /\ PureFrame

\* check_emergency_stop: balances above, at, just below and well below the
\* initial one, and an account that started empty.
EmergencyCalls ==
    {Pending("check_emergency_stop", [portfolio_balance |-> b, initial_balance |-> i]) :
        b \in {R(0), R(90), R(91), R(8000), R(9000), R(9001), R(10000), R(11000)},
        i \in {R(0), R(100), R(10000)}}

CallCheckEmergencyStop ==
    /\ vcall.fn = "check_emergency_stop" /\ ~vcall.done
    /\ vcall' = Returned(check_emergency_stop(vcall.args.portfolio_balance,
                                              vcall.args.initial_balance))
    /\ PureFrame

\* The four fetches, against every run of exchange answers.
ExchangeAnswers == {"ok", "NetworkError", "ExchangeError", "Error"}

FetchCalls ==
    {Pending("fetch", [what |-> w, demo |-> d, answers |-> a]) :
        w \in {"candles", "ticker", "balance", "positions"},
        d \in BOOLEAN,
        a \in [1..max_retries -> ExchangeAnswers]}

CallFetch ==
    /\ vcall.fn = "fetch" /\ ~vcall.done
    /\ vcall' = Returned(fetch_with_retry(vcall.args.what, vcall.args.demo, vcall.args.answers))
    /\ PureFrame

\* place_market_order against an exchange that answers every request alike.
PlaceOrderCalls == {Pending("place_market_order", order) : order \in OpenOrders}

CallPlaceMarketOrder ==
    /\ vcall.fn = "place_market_order" /\ ~vcall.done
    /\ vcall' = Returned(place_market_order(vcall.args))
    /\ PureFrame

\* ------------------------------------------------------------ specifications
InitState ==
    /\ trades = <<>>
    /\ venue = [s \in Symbols |-> FALSE]
    /\ now = StartHour
    /\ tz \in TzOffsets
    /\ last = Idle
    /\ vout = NoResult
    /\ vsize = NoSize

Init ==
    /\ InitState
    /\ mode \in Modes
    /\ vin = NoCall
    /\ vcall = NoPure

Next ==
    \/ \E s \in Symbols : RunAnalysis(s)
    \/ RunMonitor
    \/ RunDailyReport
    \/ ReturnToLoop
    \/ Tick(1)
    \/ \E s \in Symbols : VenueFill(s)

Spec == Init /\ [][Next]_vars

\* The lifecycle with a shutdown signal arriving at any moment.
NextShutdown ==
    \/ Next
    \/ ShutdownInLoop
    \/ \E s \in Symbols : ShutdownInAnalysis(s)

SpecShutdown == Init /\ [][NextShutdown]_vars

\* Admission only: every signal is an acceptable BUY and every order fills.
AdmitAnalysis(symbol) ==
    Analysis(symbol, {Signal("BUY", 80, R(100), R(98), R(104), R(2), NULL)},
             {Order(R(100), NULL)}, {NoOrder}, MaxAdmitted)

NextAdmission ==
    \/ \E s \in Symbols : AdmitAnalysis(s)
    \/ RunMonitor
    \/ ReturnToLoop
    \/ Tick(cooldown_hours)

SpecAdmission == Init /\ [][NextAdmission]_vars

\* Admission and monitoring with the venue filling stops and targets.
NextMonitor ==
    \/ NextAdmission
    \/ \E s \in Symbols : VenueFill(s)

SpecMonitor == Init /\ [][NextMonitor]_vars

\* Admission, explicit closes and monitoring; a job that ran returns to the
\* main loop.
CloseAnalysis(symbol) ==
    Analysis(symbol, {Signal("CLOSE", 80, NULL, NULL, NULL, NULL, NULL)},
             {NoOrder}, {Order(R(110), NULL), Raised("NetworkError")}, MaxAdmitted)

NextLive ==
    \/ NextMonitor
    \/ \E s \in Symbols : CloseAnalysis(s)

SpecLive ==
    /\ Init
    /\ [][NextLive]_vars
    /\ WF_vars(ReturnToLoop)

\* Admission on a host whose local time is UTC or ahead of it: the repository
\* stamps opened_at in UTC, is_in_cooldown reads the local clock.
HostTzOffsets == {0, 3}

InitHostTz ==
    /\ trades = <<>>
    /\ venue = [s \in Symbols |-> FALSE]
    /\ now = StartHour
    /\ tz \in HostTzOffsets
    /\ last = Idle
    /\ mode \in Modes
    /\ vin = NoCall
    /\ vout = NoResult
    /\ vsize = NoSize
    /\ vcall = NoPure

SpecHostTz == InitHostTz /\ [][NextAdmission]_vars

\* Trades that are opened on one day and closed by the venue on the next,
\* with the balance high at first and low later.
DailyBalances == {R(10000), R(100)}

DailyAnalysis(symbol) ==
    AnalysisWith(symbol, DailyBalances,
                 {Signal("SELL", 80, R(100), R(102), R(96), R(2), NULL)},
                 {Order(R(100), NULL)}, {NoOrder}, MaxAdmitted)

NextDaily ==
    \/ \E s \in Symbols : DailyAnalysis(s)
    \/ RunMonitor
    \/ ReturnToLoop
    \/ Tick(cooldown_hours)
    \/ \E s \in Symbols : VenueFill(s)

SpecDaily == Init /\ [][NextDaily]_vars

\* A dry run or a demo started while the venue holds positions of its own.
InitDryRun ==
    /\ trades = <<>>
    /\ venue \in [Symbols -> BOOLEAN]
    /\ now = StartHour
    /\ tz \in TzOffsets
    /\ last = Idle
    /\ mode \in {"dry", "demo"}
    /\ vin = NoCall
    /\ vout = NoResult
    /\ vsize = NoSize
    /\ vcall = NoPure

SpecDryRun == InitDryRun /\ [][Next]_vars

\* The cycles after the balance has fallen.
LowBalanceAnalysis(symbol) ==
    AnalysisWith(symbol, LowBalances, Signals, OpenOrders, CloseOrders, MaxTrades)

NextLowBalance ==
    \/ \E s \in Symbols : LowBalanceAnalysis(s)
    \/ RunMonitor
    \/ ReturnToLoop

SpecLowBalance == Init /\ [][NextLowBalance]_vars

\* validate_signal on arguments drawn from Calls.
InitValidate ==
    /\ InitState
    /\ mode = "live"
    /\ vin \in Calls
    /\ vcall = NoPure

SpecValidate == InitValidate /\ [][CallValidate]_vars

\* calculate_position_size on arguments drawn from SizeCalls.
InitSize ==
    /\ InitState
    /\ mode = "live"
    /\ vin \in SizeCalls
    /\ vcall = NoPure

SpecSize == InitSize /\ [][CallPositionSize]_vars

\* The other functions, each on arguments of its own.
InitPure ==
    /\ InitState
    /\ mode = "live"
    /\ vin = NoCall
    /\ \/ vcall \in CooldownCalls
       \/ vcall \in DailyPnlCalls
       \/ vcall \in EmergencyCalls
       \/ vcall \in FetchCalls
       \/ vcall \in PlaceOrderCalls

NextPure ==
    \/ CallIsInCooldown
    \/ CallCalculateDailyPnl
    \/ CallCheckEmergencyStop
    \/ CallFetch
    \/ CallPlaceMarketOrder

SpecPure == InitPure /\ [][NextPure]_vars


\* ===================================================================== properties
OpenTradeIds == {i \in DOMAIN trades : trades[i].status = "OPEN"}
ClosedTradeIds == {i \in DOMAIN trades : trades[i].status = "CLOSED"}
Cost(t) == RMul(t.entry_price, t.quantity)
\* pnl by side and pnl_percent as the lifecycle design states them.
SidePnl(t, exit_price) ==
    IF t.side = "BUY" THEN RMul(RSub(exit_price, t.entry_price), t.quantity)
    ELSE RMul(RSub(t.entry_price, exit_price), t.quantity)
SidePnlPercent(t, exit_price) == RMul(RDiv(SidePnl(t, exit_price), Cost(t)), R(100))

\* C1: validate_signal rejects, at rule 1, every signal whose confidence is
\* below min_confidence, whatever its action, price fields, position_size_pct,
\* balance, open trades, today's trades and last trade.
C1_LowConfidenceRejected ==
    vout.done /\ vin.signal.confidence < min_confidence
        => ~vout.valid /\ vout.rule = 1

\* A CLOSE and a HOLD apart, Scenario C: a BUY at confidence 65 that every
\* other rule would let through is rejected.
C1_Witness ==
    /\ vout.done /\ ~vout.valid
    /\ vin.signal = Signal("BUY", 65, R(100), R(98), R(104), R(2), NULL)
    /\ vin.open_trades = <<>> /\ vin.trades_today = <<>> /\ vin.last_trade = <<>>
    /\ vin.portfolio_balance = R(10000)

\* C2: the number of OPEN trades in the repository never exceeds
\* max_open_positions, over any set of symbols.
C2_OpenWithinMax == Cardinality(OpenTradeIds) <= max_open_positions

C5_ClosedFieldsIffClosed ==
    \A i \in DOMAIN trades :
        LET t == trades[i]
        IN  /\ t.status \in {"OPEN", "CLOSED"}
            /\ t.status = "CLOSED" =>
                    /\ IsNum(t.exit_price) /\ IsNum(t.pnl) /\ IsNum(t.pnl_percent)
                    /\ t.closed_at # NoTime
            /\ t.status = "OPEN" =>
                    /\ t.exit_price = NULL /\ t.pnl = NULL /\ t.pnl_percent = NULL
                    /\ t.closed_at = NoTime

\* A trade with a zero entry price closed by the monitor, where pnl_percent is
\* the guard's 0.
C5_Witness ==
    \E i \in ClosedTradeIds :
        /\ last.op = "monitor" /\ i \in DOMAIN last.mon
        /\ RZero(trades[i].entry_price)
        /\ trades[i].pnl_percent = R(0)

\* C6: after an explicit CLOSE that the gateway carried out, the closed trade
\* has exit_price from the confirmation, pnl by its side and
\* pnl_percent = pnl / (entry * quantity) * 100.
C6_ExplicitClosePnl ==
    last.op = "analysis" /\ last.action = "CLOSE" /\ last.outcome = "closed" =>
        LET t == trades[last.id]
            exit_price == GetDefault(last.price, R(0))
        IN  /\ t.status = "CLOSED"
            /\ t.exit_price = exit_price
            /\ t.pnl = SidePnl(t, exit_price)
            /\ t.pnl_percent = SidePnlPercent(t, exit_price)

\* What a monitoring cycle saw for trade i: the positions came in, and with no
\* position left the ticker came in with a price.
SawGone(i) ==
    /\ last.mon[i].positions = "ok"
    /\ ~fetch_open_positions(trades[i].symbol)
    /\ last.mon[i].ticker = "ok" /\ IsNum(last.mon[i].price)

SawPosition(i) ==
    last.mon[i].positions = "ok" /\ fetch_open_positions(trades[i].symbol)

\* C7: in a monitoring cycle that gets the positions and the ticker, a trade
\* that was OPEN and whose symbol has no venue position is CLOSED with
\* exit_price the ticker price, pnl by its side and, where entry * quantity
\* is not 0, pnl_percent = pnl / (entry * quantity) * 100; a trade whose symbol
\* still has a position stays OPEN.
C7_ImplicitClose ==
    last.op = "monitor" =>
        \A i \in DOMAIN last.mon :
            LET t == trades[i]
            IN  /\ SawGone(i) =>
                    /\ t.status = "CLOSED"
                    /\ t.exit_price = last.mon[i].price
                    /\ t.pnl = SidePnl(t, last.mon[i].price)
                    /\ ~RZero(Cost(t)) =>
                            t.pnl_percent = SidePnlPercent(t, last.mon[i].price)
                /\ SawPosition(i) => t.status = "OPEN"

\* A SELL trade with a non-zero cost that the cycle found gone at a price
\* other than its entry.
C7_Witness ==
    /\ last.op = "monitor"
    /\ \E i \in DOMAIN last.mon :
        /\ SawGone(i)
        /\ trades[i].side = "SELL"
        /\ ~RZero(Cost(trades[i]))
        /\ trades[i].exit_price # trades[i].entry_price

\* C8: in a monitoring cycle, a trade whose venue position still exists has
\* its unrealized PnL set to the figure the venue reports.
C8_UnrealizedStored ==
    last.op = "monitor" =>
        \A i \in DOMAIN last.mon :
            SawPosition(i) =>
                /\ "unrealized_pnl" \in DOMAIN trades[i]
                /\ trades[i].unrealized_pnl = last.mon[i].unrealized_pnl

\* C9: an explicit CLOSE that the gateway carried out, with a price, on a
\* trade whose entry_price * quantity is 0 does not fail: the trade is CLOSED.
C9_ZeroCostCloses ==
    /\ last.op = "analysis" /\ last.action = "CLOSE"
    /\ last.closes = 1 /\ last.answer = "ok" /\ IsNum(last.price)
    /\ last.id # 0 /\ RZero(Cost(trades[last.id]))
    => last.outcome = "closed" /\ trades[last.id].status = "CLOSED"

\* C10: when the gateway fails to close a position for a CLOSE signal, no
\* trade changes (the trade stays OPEN with all its fields) and close_position
\* was called once in that cycle.
C10_FailedCloseLeavesOpen ==
    [][last'.op = "analysis" /\ last'.action = "CLOSE" /\ last'.closes > 0
            /\ last'.answer # "ok"
        => trades' = trades /\ last'.closes = 1]_vars

\* The gateway failed to close while a trade of the symbol was OPEN.
C10_Witness ==
    /\ last.op = "analysis" /\ last.action = "CLOSE"
    /\ last.closes = 1 /\ last.answer # "ok"
    /\ \E i \in OpenTradeIds : trades[i].symbol = last.sym

\* C11: when the gateway fails to close a position for a CLOSE signal, an
\* error notification is sent in that same analysis cycle.
C11_FailedCloseAlerts ==
    last.op = "analysis" /\ last.action = "CLOSE" /\ last.closes > 0
        /\ last.answer # "ok"
    => "error" \in last.alerts

\* C12: when place_market_order fails at the gateway, whatever the kind of
\* failure, the analysis cycle leaves the set of trades as it was.
C12_FailedOrderNoTrade ==
    [][last'.op = "analysis" /\ last'.orders > 0 /\ last'.answer # "ok"
        => trades' = trades]_vars

\* An accepted BUY or SELL whose order the gateway refused for lack of funds.
C12_Witness ==
    /\ last.op = "analysis" /\ last.action \in {"BUY", "SELL"}
    /\ last.orders = 1 /\ last.answer = "InsufficientFunds"
    /\ last.outcome = "order_failed"

\* The rules of the chain that the arguments of a call fail, each taken alone.
FailingRules(call) ==
    {n \in {1, 3, 4, 5, 6, 7} :
        \/ n = 1 /\ rule1_confidence(call.signal)
        \/ n = 3 /\ rule3_max_open(call.signal, call.open_trades)
        \/ n = 4 /\ rule4_drawdown(call.portfolio_balance, call.open_trades,
                                   call.trades_today)
        \/ n = 5 /\ rule5_cooldown(call.signal, call.last_trade, call.local)
        \/ n = 6 /\ rule6_reward_risk(call.signal) # ""
        \/ n = 7 /\ rule7_position_size(call.signal)}

Lowest(S) == CHOOSE n \in S : \A m \in S : n <= m

Opening == vout.done /\ vin.signal.action \in {"BUY", "SELL"}
Confident == vin.signal.confidence >= min_confidence

\* C13: a BUY or SELL signal that fails one or more rules is rejected by the
\* lowest-numbered of the rules it fails, in the order 1, 3, 4, 5, 6, 7.
C13_FirstFailingRuleDecides ==
    Opening /\ FailingRules(vin) # {}
        => ~vout.valid /\ vout.rule = Lowest(FailingRules(vin))

\* A confident BUY that fails rules 3, 4, 5, 6 and 7 together.
C13_Witness ==
    /\ Opening /\ Confident
    /\ FailingRules(vin) = {3, 4, 5, 6, 7}
    /\ vout.rule = 3

\* C14: a BUY or SELL signal that passed the confidence rule is rejected at
\* rule 3 exactly when the number of open trades is at least
\* max_open_positions.
C14_MaxOpenPositions ==
    Opening /\ Confident
        => /\ vout.rule = 3 <=> Len(vin.open_trades) >= max_open_positions
           /\ vout.rule = 3 => ~vout.valid

\* A signal acceptable in everything else, with exactly max_open_positions
\* open trades.
C14_Witness ==
    /\ Opening /\ Confident
    /\ Len(vin.open_trades) = max_open_positions
    /\ FailingRules(vin) = {3}
    /\ ~vout.valid

\* Realized pnl of the CLOSED trades of today plus the unrealized pnl of the
\* open trades, and the loss limit of the day.
DailyPnl == calculate_daily_pnl(vin.trades_today, vin.open_trades)
MaxLoss == RMul(vin.portfolio_balance, max_daily_drawdown)

\* C15: a BUY or SELL signal that passed rules 1 and 3 is rejected at rule 4
\* exactly when the daily PnL is strictly below -(balance * max_daily_drawdown).
C15_DailyDrawdown ==
    Opening /\ Confident /\ Len(vin.open_trades) < max_open_positions
        => /\ vout.rule = 4 <=> RLt(DailyPnl, RNeg(MaxLoss))
           /\ vout.rule = 4 => ~vout.valid

\* Scenario E: realized -700, unrealized +100, balance 10000: -600 < -500.
C15_Witness ==
    /\ Opening /\ Confident
    /\ vin.portfolio_balance = R(10000)
    /\ Len(vin.trades_today) = 1 /\ vin.trades_today[1].pnl = R(-700)
    /\ Len(vin.open_trades) = 1 /\ vin.open_trades[1].unrealized_pnl = R(100)
    /\ DailyPnl = R(-600)
    /\ vout.rule = 4 /\ ~vout.valid

\* A call that gets as far as rule 6.
ReachesRule6 == Opening /\ vout.rule \notin {1, 3, 4, 5}
Present(x) == x # NULL /\ x # ABSENT
Risk == RAbs(RSub(vin.signal.entry_price, vin.signal.stop_loss))
Reward == RAbs(RSub(vin.signal.take_profit, vin.signal.entry_price))
AllPresent ==
    /\ Present(vin.signal.entry_price) /\ Present(vin.signal.stop_loss)
    /\ Present(vin.signal.take_profit)
AllNonZero ==
    /\ ~RZero(vin.signal.entry_price) /\ ~RZero(vin.signal.stop_loss)
    /\ ~RZero(vin.signal.take_profit)

\* C16 as stated: with the three prices present, a risk above 0 and a
\* reward:risk ratio of at least min_reward_risk_ratio, rule 6 passes.
C16_PresentPricesPass ==
    ReachesRule6 /\ AllPresent /\ RLt(R(0), Risk)
        /\ RLe(min_reward_risk_ratio, RDiv(Reward, Risk))
    => vout.rule # 6

\* C16: a BUY or SELL signal that reaches rule 6 is rejected there when one
\* of entry_price, stop_loss, take_profit is absent or zero, with the
\* invalid-stop-loss reason when the risk is 0, and when reward / risk is below
\* min_reward_risk_ratio; with three non-zero prices and a ratio of at least
\* min_reward_risk_ratio the rule passes.
C16_RewardRisk ==
    ReachesRule6 =>
        IF ~AllPresent \/ ~AllNonZero
        THEN vout.rule = 6 /\ vout.reason = "missing_prices"
        ELSE IF RZero(Risk)
        THEN vout.rule = 6 /\ vout.reason = "invalid_stop_loss"
        ELSE IF RLt(RDiv(Reward, Risk), min_reward_risk_ratio)
        THEN vout.rule = 6 /\ vout.reason = "reward_risk"
        ELSE vout.rule # 6

\* A take-profit of zero with reward:risk 5/2: rejected as missing prices.
C16_Witness ==
    /\ ReachesRule6 /\ AllPresent /\ ~AllNonZero
    /\ RLe(min_reward_risk_ratio, RDiv(Reward, Risk))
    /\ vout.rule = 6 /\ vout.reason = "missing_prices"

InRange(pct) == Present(pct) /\ RLe(R(1), pct) /\ RLe(pct, R(5))

\* C17: a BUY or SELL signal is accepted only with position_size_pct present
\* and within [1, 5], and one that passes rules 1-6 with position_size_pct
\* within [1, 5] is accepted.
C17_PositionSizeRange ==
    Opening =>
        /\ vout.valid => InRange(vin.signal.position_size_pct)
        /\ vout.rule \notin {1, 3, 4, 5, 6} /\ InRange(vin.signal.position_size_pct)
            => vout.valid

\* position_size_pct at the upper end of the range, accepted.
C17_Witness ==
    Opening /\ vin.signal.position_size_pct = R(5) /\ vout.valid

\* C18: a CLOSE signal with confidence of at least min_confidence is accepted
\* whatever the open trades, the daily PnL, the cooldown, the price fields and
\* position_size_pct.
C18_CloseAccepted ==
    vout.done /\ vin.signal.action = "CLOSE" /\ Confident => vout.valid

\* The two limits on the quantity: by the share of the balance put into the
\* position and by the share of the balance put at risk.
ByValue(entry_price) ==
    RDiv(RMul(vin.portfolio_balance, RDiv(vin.signal.position_size_pct, R(100))),
         entry_price)
ByRisk(entry_price) ==
    RDiv(RMul(vin.portfolio_balance, max_risk_per_trade),
         RAbs(RSub(entry_price, vin.signal.stop_loss)))

Sized == vsize.done /\ vin.signal.action \in {"BUY", "SELL"}

\* C19: for a BUY or SELL signal that validate_signal accepts and a positive
\* balance, calculate_position_size returns the smaller of the two limits:
\* quantity <= (balance * position_size_pct / 100) / entry_price and
\* quantity <= (balance * max_risk_per_trade) / |entry_price - stop_loss|.
C19_QuantityWithinLimits ==
    Sized /\ vout.valid /\ RLt(R(0), vin.portfolio_balance)
        => LET entry_price == vin.signal.entry_price
           IN  /\ ~vsize.raised
               /\ vsize.size = RMin(ByRisk(entry_price), ByValue(entry_price))
               /\ RLe(vsize.size, ByValue(entry_price))
               /\ RLe(vsize.size, ByRisk(entry_price))

\* Scenario A: balance 10000, entry 100, stop 98, position_size_pct 2: the
\* risk limit is 100, the value limit is 2, the quantity is 2.
C19_Witness ==
    /\ Sized /\ vout.valid
    /\ vin.portfolio_balance = R(10000)
    /\ vin.signal.entry_price = R(100) /\ vin.signal.stop_loss = R(98)
    /\ vin.signal.position_size_pct = R(2)
    /\ ByRisk(R(100)) = R(100) /\ ByValue(R(100)) = R(2)
    /\ vsize.size = R(2)

\* C20: with the signal's entry_price absent (missing or null), a stop-loss
\* and a position_size_pct within range, calculate_position_size does not
\* raise and returns the quantity sized from current_price.
C20_AbsentEntryUsesCurrentPrice ==
    /\ Sized /\ ~Present(vin.signal.entry_price)
    /\ Present(vin.signal.stop_loss) /\ InRange(vin.signal.position_size_pct)
    => /\ ~vsize.raised
       /\ vsize.size = RMin(ByRisk(vin.current_price), ByValue(vin.current_price))

CooldownCall == vcall.fn = "is_in_cooldown" /\ vcall.done

\* C22: a last trade opened less than cooldown_hours ago is reported in
\* cooldown, whether its opened_at is a naive timestamp or a UTC-suffixed one
\* ('Z' or '+00:00') of the same instant.
C22_CooldownAnyTimestampForm ==
    /\ CooldownCall
    /\ vcall.args.opened_at.form \in {"naive", "Z", "+00:00"}
    /\ vcall.args.now - vcall.args.opened_at.at < cooldown_hours
    => vcall.result = TRUE

\* What the first n rows contribute: the pnl of the CLOSED ones, and the
\* unrealized_pnl of all of them; a missing or null figure counts as 0.
RECURSIVE RealizedOf(_, _)
RealizedOf(rows, n) ==
    IF n = 0 THEN R(0)
    ELSE IF rows[n].status = "CLOSED" /\ IsNum(rows[n].pnl)
    THEN RAdd(RealizedOf(rows, n - 1), rows[n].pnl)
    ELSE RealizedOf(rows, n - 1)

RECURSIVE UnrealizedOf(_, _)
UnrealizedOf(rows, n) ==
    IF n = 0 THEN R(0)
    ELSE IF "unrealized_pnl" \in DOMAIN rows[n] /\ IsNum(rows[n].unrealized_pnl)
    THEN RAdd(UnrealizedOf(rows, n - 1), rows[n].unrealized_pnl)
    ELSE UnrealizedOf(rows, n - 1)

DailyPnlCall == vcall.fn = "calculate_daily_pnl" /\ vcall.done

\* C23: calculate_daily_pnl returns the sum of pnl over the CLOSED trades of
\* trades_today plus the sum of unrealized_pnl over open_trades; trades of
\* today that are not CLOSED add nothing, and the call changes no state.
C23_DailyPnlSum ==
    DailyPnlCall =>
        /\ vcall.result =
                RAdd(RealizedOf(vcall.args.trades_today, Len(vcall.args.trades_today)),
                     UnrealizedOf(vcall.args.open_trades, Len(vcall.args.open_trades)))
        /\ trades = <<>> /\ last = Idle /\ vin = NoCall /\ vout = NoResult

\* Today: an OPEN trade carrying -50 and a CLOSED one with -600; open trades:
\* one with unrealized +100: the result is -500.
C23_Witness ==
    /\ DailyPnlCall
    /\ Len(vcall.args.trades_today) = 2
    /\ vcall.args.trades_today[1].status = "OPEN"
    /\ vcall.args.trades_today[1].pnl = R(-50)
    /\ Len(vcall.args.open_trades) = 1
    /\ "unrealized_pnl" \in DOMAIN vcall.args.open_trades[1]
    /\ vcall.result = R(-500)

EmergencyCall == vcall.fn = "check_emergency_stop" /\ vcall.done

\* C24: for every current and initial balance check_emergency_stop returns,
\* with stop = true exactly when
\* (initial_balance - current_balance) / initial_balance >= 0.10.
C24_EmergencyStopThreshold ==
    EmergencyCall =>
        /\ ~vcall.result.raised
        /\ vcall.result.stop <=>
                RLe(Rat(1, 10),
                    RDiv(RSub(vcall.args.initial_balance, vcall.args.portfolio_balance),
                         vcall.args.initial_balance))

\* C25: in an analysis cycle that finds the balance 10% or more below the
\* initial balance, no order is placed and no OPEN trade is recorded.
C25_EmergencyStopHaltsAdmission ==
    /\ last.op = "analysis" /\ IsNum(last.balance)
    /\ check_emergency_stop(last.balance, initial_balance).stop
    => last.orders = 0 /\ last.outcome # "opened"

\* C26: every trade in the repository has a quantity above 0.
C26_QuantityPositive ==
    \A i \in DOMAIN trades : RLt(R(0), trades[i].quantity)

\* The prices a position may have been sized with: the entry_price of the
\* signal or the current price.
SizingPrices == {sig.entry_price : sig \in Signals} \cup CurrentPrices
HasFillPrice == IsNum(last.price) /\ ~RZero(last.price)

\* C27: when the gateway confirms an order, an OPEN trade is recorded whose
\* entry_price is the fill price of the confirmation, or, when the
\* confirmation carries no fill price, the price the position was sized with.
C27_EntryPriceFromFill ==
    last.op = "analysis" /\ last.orders = 1 /\ last.answer = "ok"
        => /\ last.id \in DOMAIN trades
           /\ trades[last.id].status = "OPEN"
           /\ IF HasFillPrice THEN trades[last.id].entry_price = last.price
              ELSE /\ trades[last.id].entry_price \in SizingPrices
                   /\ IsNum(trades[last.id].entry_price)
                   /\ ~RZero(trades[last.id].entry_price)

\* A fetch that went to the exchange, and the number of the last request.
FetchCall ==
    /\ vcall.fn = "fetch" /\ vcall.done
    /\ ~(vcall.args.demo /\ vcall.args.what \in {"balance", "positions"})

\* C28: a market-data fetch makes at most 3 requests; every request but the
\* last was answered by a NetworkError, after which it slept 1s, then 2s; it
\* returns on the first success, raises after the first other error, and
\* raises the NetworkError after the 3rd in a row.
C28_FetchRetry ==
    FetchCall =>
        LET n == vcall.result.attempts
            answers == vcall.args.answers
        IN  /\ n \in 1..3
            /\ \A k \in 1..(n - 1) : answers[k] = "NetworkError"
            /\ vcall.result.slept = [k \in 1..(n - 1) |-> 2 ^ (k - 1)]
            /\ answers[n] = "ok" => vcall.result.returned
            /\ answers[n] # "ok" =>
                    ~vcall.result.returned /\ vcall.result.raised = answers[n]
            /\ answers[n] = "NetworkError" => n = 3

\* Two NetworkErrors, then a success: 3 requests, sleeps of 1s and 2s.
C28_Witness ==
    /\ FetchCall
    /\ vcall.args.answers = <<"NetworkError", "NetworkError", "ok">>
    /\ vcall.result.attempts = 3 /\ vcall.result.slept = <<1, 2>>
    /\ vcall.result.returned

PlaceOrderCall == vcall.fn = "place_market_order" /\ vcall.done

\* C29: against an exchange that keeps answering with a NetworkError,
\* place_market_order makes 3 attempts before it returns the failure; an
\* invalid order and insufficient funds are returned after one attempt.
C29_OrderPlacementRetry ==
    PlaceOrderCall =>
        /\ vcall.args.kind = "NetworkError" =>
                ~vcall.result.success /\ vcall.result.attempts = 3
        /\ vcall.args.kind \in {"InvalidOrder", "InsufficientFunds"} =>
                ~vcall.result.success /\ vcall.result.attempts = 1

\* C30: an analysis cycle whose signal request failed works on the sentinel
\* (HOLD, confidence 0, error set): it places, closes and adjusts nothing and
\* leaves the trades and the venue as they were.
C30_FailedSignalNoOrder ==
    [][(last'.op = "analysis" /\ last'.ai_error)
            => /\ last'.action = "HOLD"
               /\ last'.orders = 0 /\ last'.closes = 0 /\ last'.adjusts = 0
               /\ trades' = trades
               /\ venue' = venue]_vars

\* A failed signal request in live mode while a trade is open.
C30_Witness ==
    /\ last.op = "analysis" /\ last.ai_error
    /\ mode = "live"
    /\ OpenTradeIds # {}

\* C31: an analysis cycle that ends in a rejection by the validator has sent
\* a notification.
C31_RejectionNotified ==
    (last.op = "analysis" /\ last.outcome = "rejected") => last.alerts # {}

\* A cycle in which something failed: the outer except of run_analysis, a
\* failed order or close, a failed loop body or snapshot of run_monitor, a
\* failed daily report.
MonitorErrors == {"positions_error", "update_error", "ticker_error", "pnl_error"}

FailedCycle ==
    \/ last.outcome \in {"error", "order_failed", "close_failed"}
    \/ /\ last.op = "monitor"
       /\ \/ last.snapshot = "error"
          \/ \E id \in DOMAIN last.mon :
                monitor_outcome(trades[id], last.mon[id]).tag \in MonitorErrors

\* C32: after a cycle in which something failed the process has not exited
\* and the main loop goes on to the next due job.
C32_FailureKeepsLoop ==
    FailedCycle => ~last.exited /\ ENABLED ReturnToLoop

\* An analysis cycle that ended in the outer except after its order was placed.
C32_Witness ==
    /\ last.op = "analysis" /\ last.outcome = "error"
    /\ last.orders = 1
    /\ ~last.exited

\* C33: the process never exits between a successful order placement and the
\* recording of its OPEN trade, nor between a venue close and the CLOSED
\* update of the trade.
C33_ShutdownAfterTask ==
    (last.exited /\ last.op = "analysis" /\ last.answer = "ok" /\ HasFillPrice)
        => /\ last.orders = 1 =>
                /\ last.id \in DOMAIN trades
                /\ trades[last.id].status = "OPEN"
           /\ (last.closes = 1 /\ last.id \in DOMAIN trades) =>
                trades[last.id].status = "CLOSED"

\* C34: an analysis cycle that ends in a rejection by the validator sends
\* nothing to the gateway and leaves every trade and the venue as they were.
C34_RejectionNoMutation ==
    [][(last'.op = "analysis" /\ last'.outcome = "rejected")
            => /\ last'.action \in {"BUY", "SELL"}
               /\ last'.orders = 0 /\ last'.closes = 0 /\ last'.adjusts = 0
               /\ trades' = trades
               /\ venue' = venue]_vars

\* A live cycle rejects a signal for a symbol that has an OPEN trade.
C34_Witness ==
    /\ last.op = "analysis" /\ last.outcome = "rejected"
    /\ mode = "live"
    /\ \E id \in OpenTradeIds : trades[id].symbol = last.sym

\* C35: after an analysis cycle whose order the gateway confirmed, the symbol
\* has an OPEN trade written in that cycle, and the venue holds no position
\* of the symbol without an OPEN trade.
C35_PlacedOrderRecorded ==
    (last.op = "analysis" /\ last.orders = 1 /\ last.answer = "ok")
        => /\ \E id \in OpenTradeIds : id = last.id /\ trades[id].symbol = last.sym
           /\ venue[last.sym] => \E id \in OpenTradeIds : trades[id].symbol = last.sym

\* C36: in a monitoring cycle, a trade for which the fetch of the positions
\* or of the ticker raised stays OPEN with every field as it was, and a trade
\* of the same cycle found gone at a ticker price is CLOSED all the same.
C36_FetchFailureKeepsOpen ==
    [][last'.op = "monitor" =>
            \A i \in DOMAIN last'.mon :
                LET in == last'.mon[i]
                    gone == in.positions = "ok" /\ ~fetch_open_positions(trades[i].symbol)
                    failed == \/ mode # "demo" /\ in.positions = "error"
                              \/ gone /\ in.ticker = "error"
                IN  /\ failed => trades'[i] = trades[i] /\ trades'[i].status = "OPEN"
                    /\ (gone /\ in.ticker = "ok" /\ IsNum(in.price))
                            => trades'[i].status = "CLOSED"]_vars

\* One cycle: the positions fetch fails for one trade, which stays OPEN, and
\* another trade is found gone and CLOSED.
C36_Witness ==
    /\ last.op = "monitor"
    /\ \E i, j \in DOMAIN last.mon :
        /\ last.mon[i].positions = "error" /\ trades[i].status = "OPEN"
        /\ last.mon[j].positions = "ok" /\ last.mon[j].ticker = "ok"
        /\ trades[j].status = "CLOSED" /\ trades[j].closed_at = now

\* A monitoring cycle has just run in which, for every trade of the symbol it
\* went through, the positions and the ticker were fetched, the ticker with a
\* price.
MonitorFetched(s) ==
    /\ last.op = "monitor"
    /\ \A i \in DOMAIN last.mon :
        trades[i].symbol = s =>
            /\ last.mon[i].positions = "ok" /\ last.mon[i].ticker = "ok"
            /\ ~venue[s] => IsNum(last.mon[i].price)

\* C37: for every symbol, if from some moment on the venue holds no position
\* of it and monitoring cycles whose fetches succeed keep coming, then from
\* some moment on no trade of the symbol is OPEN.
C37_GoneEventuallyClosed ==
    \A s \in Symbols :
        ([]<>MonitorFetched(s) /\ <>[](~venue[s]))
            => <>[](\A i \in OpenTradeIds : trades[i].symbol # s)

\* Two trades of one symbol: the newer was CLOSED first, by an explicit close
\* that left the older OPEN, and this monitoring cycle closed the older.
C37_Witness ==
    /\ last.op = "monitor"
    /\ \E i, j \in ClosedTradeIds :
        /\ trades[i].symbol = trades[j].symbol
        /\ trades[i].opened_at > trades[j].opened_at
        /\ i \notin DOMAIN last.mon
        /\ j \in DOMAIN last.mon

\* C38: two trades recorded for one symbol have opened_at at least
\* cooldown_hours apart.
C38_CooldownBetweenTrades ==
    \A i, j \in DOMAIN trades :
        (i # j /\ trades[i].symbol = trades[j].symbol /\
         trades[j].opened_at >= trades[i].opened_at)
            => trades[j].opened_at - trades[i].opened_at >= cooldown_hours

\* The pnl realized today: over the trades CLOSED on the day of the clock.
RealizedToday ==
    SumSeq(SelectSeq(trades, LAMBDA t : t.status = "CLOSED" /\
                                       DateOf(t.closed_at) = DateOf(now)),
           "pnl")

\* C39: an analysis cycle with a BUY or SELL signal, run while no trade is
\* OPEN and the pnl realized today is below -(balance * max_daily_drawdown),
\* rejects the signal at rule 4 or before, whatever day the trades closed
\* today were opened.
C39_DailyPnlGate ==
    (/\ last.op = "analysis" /\ last.action \in {"BUY", "SELL"}
     /\ last.outcome # "error"
     /\ OpenTradeIds \ {last.id} = {}
     /\ RLt(RealizedToday, RNeg(RMul(last.balance, max_daily_drawdown))))
        => last.outcome = "rejected" /\ last.rule \in {1, 3, 4}

\* C40: in dry-run and in demo mode an analysis cycle sends no order, no
\* close and no stop adjustment to the gateway and leaves the trades and the
\* venue as they were, whatever the signal.
C40_DryRunNoOrders ==
    [][(mode \in {"dry", "demo"} /\ last'.op = "analysis")
            => /\ last'.orders = 0 /\ last'.closes = 0 /\ last'.adjusts = 0
               /\ trades' = trades
               /\ venue' = venue]_vars

\* A dry-run cycle with a CLOSE signal for a symbol that has a venue position.
C40_Witness ==
    /\ mode = "dry"
    /\ last.op = "analysis" /\ last.action = "CLOSE"
    /\ venue[last.sym]
    /\ last.outcome = "dry_run"

====
